---- MODULE Spec2Model ----
(***************************************************************************)
(* uup: the probe-orchestration loop (src/src/main.rs, run_uup_checker),   *)
(* the ICMP backend (src/src/ping.rs, PingUup) and the result types        *)
(* (src/src/lib.rs), as a state machine.                                   *)
(*                                                                         *)
(* Spec      one run of run_uup_checker against one backend instance.      *)
(* SpecConc  NumCallers concurrent PingUup::check invocations on one       *)
(*           backend instance, at the granularity of the lock block.       *)
(***************************************************************************)
EXTENDS Integers, Sequences, FiniteSets, TLC

VARIABLES
    \* ---- arguments of run_uup_checker (main.rs:166-175) ----
    checker,        \* which implementation is behind &Box<dyn Uup>
    run_mode,       \* RunMode
    ipaddr,         \* IpAddr
    port,           \* Option<u16>: "None" or "Some"
    exclusive,      \* bool
    output_json,    \* bool
    \* ---- locals of run_uup_checker (main.rs:176-237) ----
    pending,        \* per signal stream: a signal was delivered and not yet received
    loop_count,     \* u128
    host_is_up,     \* bool
    should_break,   \* bool
    pc,             \* "checking" | "delaying" | "done"
    ret,            \* what run_uup_checker returned (or that it unwound by panic)
    \* ---- the check future raced in the first select! ----
    check_pc,       \* "none" | "pinger" | "pinging" | "running"
    seq,            \* the local seq_cnt of the in-flight PingUup::check
    \* ---- PingUup (ping.rs:11-13) ----
    seq_cnt,        \* the u16 behind Arc<Mutex<Cell<u16>>>
    \* ---- observable effects ----
    stdout,         \* lines printed by println! (main.rs:192)
    warnings,       \* port warnings printed by eprintln! (ping.rs:27)
    \* ---- history, recorded for the properties ----
    result,         \* the last UupCheckResult a check returned
    folded,         \* the result.up values folded so far, in order
    nsignals,       \* signals delivered so far
    nchecking,      \* Checking phases entered (first select! reached)
    nstarted,       \* check futures polled at least once
    nfailed,        \* check futures that resolved with Err
    ndelays,        \* Delaying phases entered (sleep(delay) created)
    npolicy,        \* evaluations of the run-mode policy (match run_mode)
    sig_in,         \* the phases of the current iteration a signal has won
    iter_start,     \* host_is_up, lines printed and results folded when the
                    \* current iteration began
    \* ---- SpecConc: concurrent callers of one PingUup ----
    lock_holder,    \* 0 when the mutex is free, else the caller holding it
    cpc,            \* per caller: position inside check
    cseq            \* per caller: its local seq_cnt

vars == <<checker, run_mode, ipaddr, port, exclusive, output_json, pending,
          loop_count, host_is_up, should_break, pc, ret, check_pc, seq, seq_cnt,
          stdout, warnings, result, folded, nsignals, nchecking, nstarted,
          nfailed, ndelays, npolicy, sig_in, iter_start, lock_holder, cpc, cseq>>

-----------------------------------------------------------------------------
\* Bounds of the model.

\* Largest n of Count(n) explored.
MaxCount == 2
\* Signals delivered in one run.
MaxSignals == 2
\* Concurrent callers of one backend in SpecConc.
NumCallers == 3

\* Iterations explored in Forever mode: one more than any Count run needs.
MaxLoop == MaxCount + 1

\* u16: the counter's type (ping.rs:12).
SeqMod == 65536

Signals == {"SIGTERM", "SIGINT"}
Checkers == {"ping", "dyn"}
Addrs == {"10.0.0.1"}
\* Round-trip times a reply may be observed with (f32 seconds).
Durations == {"0.0123", "0.5"}
Callers == 1..NumCallers

-----------------------------------------------------------------------------
\* RunMode (main.rs:21-25).
OneShot == [kind |-> "OneShot", max_count |-> 0]
Forever == [kind |-> "Forever", max_count |-> 0]
Count(n) == [kind |-> "Count", max_count |-> n]
RunModes == {OneShot, Forever} \cup {Count(n) : n \in 0..MaxCount}

\* Result<bool, Error> of run_uup_checker, or the unwinding of a panic.
NotReturned == [kind |-> "None", value |-> FALSE]
Ok(b) == [kind |-> "Ok", value |-> b]
Err == [kind |-> "Err", value |-> FALSE]
Panicked == [kind |-> "Panic", value |-> FALSE]

NoResult == [kind |-> "None"]

-----------------------------------------------------------------------------
\* lib.rs and ping.rs: the result of one check.

\* What pinger.ping(..).await? yields on success (ping.rs:38): Some(duration)
\* on a reply within the timeout, None when the timeout elapsed first.
Reply(d) == [kind |-> "Some", duration |-> d]
TimedOut == [kind |-> "None", duration |-> "-1"]
PingDurations == {Reply(d) : d \in Durations} \cup {TimedOut}

\* ping.rs:40-49: the local `up`.
PingUp(ping_duration) == ping_duration.kind = "Some"

\* ping.rs:40-49: the local `duration_secs`, -1.0 when there was no reply.
DurationSecs(ping_duration) ==
    IF ping_duration.kind = "Some" THEN ping_duration.duration ELSE "-1"

\* ping.rs:59-69.
build_json_object(up, duration_secs, s, addr) ==
    [up |-> up, duration |-> duration_secs, unit |-> "s",
     sequence_number |-> s, address |-> addr]

\* ping.rs:76, 81: `as_f64().unwrap() as f32` gives back the f32 that was
\* stored, and `{}` prints an f32 with the fewest digits that identify it.
F32Text(d) ==
    CASE d = "0.0123" -> "0.0123"
      [] d = "0.5" -> "0.5"
      [] d = "-1" -> "-1"

\* ping.rs:63 with lib.rs:23: json! stores the f32 widened to f64, and
\* to_string prints that f64 with the fewest digits that identify it.
F64Text(d) ==
    CASE d = "0.0123" -> "0.012299999594688416"
      [] d = "0.5" -> "0.5"
      [] d = "-1" -> "-1.0"

\* The closure with the two branches exchanged.
ToHumanReadableSwapped(json_obj) ==
    IF ~json_obj.up
    THEN [fmt |-> "human", text |-> "responded in", address |-> json_obj.address,
          duration |-> F32Text(json_obj.duration), unit |-> json_obj.unit,
          sequence_number |-> json_obj.sequence_number]
    ELSE [fmt |-> "human", text |-> "timed out", address |-> json_obj.address,
          sequence_number |-> json_obj.sequence_number]

\* ping.rs:74-86: the closure handed to UupCheckResultContext::new.
ToHumanReadable(json_obj) ==
    IF json_obj.up
    THEN [fmt |-> "human", text |-> "responded in", address |-> json_obj.address,
          duration |-> F32Text(json_obj.duration), unit |-> json_obj.unit,
          sequence_number |-> json_obj.sequence_number]
    ELSE [fmt |-> "human", text |-> "timed out", address |-> json_obj.address,
          sequence_number |-> json_obj.sequence_number]

\* lib.rs:23: serde_json::Value::to_string of the object.
JsonToString(json_obj) ==
    [fmt |-> "json", address |-> json_obj.address,
     duration |-> F64Text(json_obj.duration),
     sequence_number |-> json_obj.sequence_number, unit |-> json_obj.unit,
     up |-> json_obj.up]

\* ping.rs:71-88.
build_result_context(json_obj) == [json |-> json_obj]

\* lib.rs:21-28.
get_context_str(context, as_json) ==
    IF as_json THEN JsonToString(context.json) ELSE ToHumanReadable(context.json)

\* ping.rs:51-55: the value PingUup::check returns for a ping that resolved.
PingCheckResult(ping_duration, s, addr) ==
    [kind |-> "Result",
     up |-> TRUE,
     context |-> build_result_context(
                    build_json_object(PingUp(ping_duration),
                                      DurationSecs(ping_duration), s, addr))]

\* lib.rs:31-39: what any other implementation of the trait may return: a
\* result with either flag, its context opaque to the loop.
DynCheckResult(up, addr) ==
    [kind |-> "Result", up |-> up, context |-> [json |-> [up |-> up, address |-> addr]]]

\* lib.rs:21-28 for such a result: the context's own rendering.
DynLine(context, as_json) ==
    [fmt |-> IF as_json THEN "json" ELSE "human", address |-> context.json.address,
     up |-> context.json.up]

\* The increment stepping by two.
SeqIncrementByTwo(s) ==
    IF s + 2 >= SeqMod
    THEN {[panic |-> FALSE, value |-> (s + 2) % SeqMod], [panic |-> TRUE, value |-> s]}
    ELSE {[panic |-> FALSE, value |-> s + 2]}

\* ping.rs:34: seq_cnt_lock.get() + 1 on a u16. At 65535 the addition
\* overflows: a build with overflow checks panics, one without wraps to 0.
SeqIncrement(s) ==
    IF s + 1 >= SeqMod
    THEN {[panic |-> FALSE, value |-> (s + 1) % SeqMod], [panic |-> TRUE, value |-> s]}
    ELSE {[panic |-> FALSE, value |-> s + 1]}

-----------------------------------------------------------------------------
\* main.rs: the pure parts of run_uup_checker.

\* main.rs:180: host_is_up starts as `exclusive`.
InitialVerdict(excl) == excl

\* Fold with the two rules exchanged.
FoldSwapped(acc, up, excl) == IF excl THEN acc \/ up ELSE acc /\ up

\* main.rs:186-191: fold one result.up into host_is_up.
Fold(acc, up, excl) == IF excl THEN acc /\ up ELSE acc \/ up

\* The policy with Count(n) stopping one iteration early.
PolicyBreakOneEarly(mode, count) ==
    CASE mode.kind = "OneShot" -> TRUE
      [] mode.kind = "Forever" -> FALSE
      [] mode.kind = "Count" -> count + 1 >= mode.max_count

\* The policy with OneShot treated as Count(1).
PolicyBreakOneShotRepeats(mode, count) ==
    CASE mode.kind = "OneShot" -> count >= 1
      [] mode.kind = "Forever" -> FALSE
      [] mode.kind = "Count" -> count >= mode.max_count

\* The policy with Forever treated as Count(1).
PolicyBreakForeverStops(mode, count) ==
    CASE mode.kind = "OneShot" -> TRUE
      [] mode.kind = "Forever" -> count >= 1
      [] mode.kind = "Count" -> count >= mode.max_count

\* The policy with Count(n) never satisfied.
PolicyBreakCountNever(mode, count) ==
    CASE mode.kind = "OneShot" -> TRUE
      [] mode.kind = "Forever" -> FALSE
      [] mode.kind = "Count" -> FALSE

\* main.rs:223-227: the run-mode policy.
PolicyBreak(mode, count) ==
    CASE mode.kind = "OneShot" -> TRUE
      [] mode.kind = "Forever" -> FALSE
      [] mode.kind = "Count" -> count >= mode.max_count

\* The decision with the policy's answer overwriting should_break.
BreakAfterDelayPolicyOnly(sb, mode, count) == PolicyBreak(mode, count)

\* main.rs:222-228: should_break after the second select!.
BreakAfterDelay(sb, mode, count) == IF ~sb THEN PolicyBreak(mode, count) ELSE sb

\* main.rs:13-15.
EXIT_CODE_HOST_UP == 0
EXIT_CODE_HOST_DOWN == 1
EXIT_CODE_ERROR == 2

\* The status of a process whose main thread panicked (main.rs:139).
PANIC_STATUS == 101

Exit(code) == [kind |-> "exit", code |-> code]
Abort == [kind |-> "panic", code |-> PANIC_STATUS]

\* main.rs:129-145, 163: how main ends once run_uup_checker has ended with
\* r. `.expect(..)` panics on Err, and a panic inside the loop unwinds
\* through main as well; only Ok(host_up) reaches the exit codes.
MainExit(r) ==
    CASE r.kind = "Ok" ->
            Exit(IF r.value THEN EXIT_CODE_HOST_UP ELSE EXIT_CODE_HOST_DOWN)
      [] r.kind = "Err" -> Abort
      [] r.kind = "Panic" -> Abort

-----------------------------------------------------------------------------
\* One run of run_uup_checker.

args == <<checker, run_mode, ipaddr, port, exclusive, output_json>>
conc == <<lock_holder, cpc, cseq>>
counters == <<nsignals, nchecking, nstarted, ndelays, npolicy>>


NoSignal == [checking |-> FALSE, delaying |-> FALSE]

\* main.rs:166-181: the state on entry to the loop, for every combination
\* of arguments; no caller of SpecConc has called yet.
InitRun ==
    /\ checker \in Checkers
    /\ run_mode \in RunModes
    /\ ipaddr \in Addrs
    /\ port \in {"None", "Some"}
    /\ exclusive \in BOOLEAN
    /\ output_json \in BOOLEAN
    /\ pending = [k \in Signals |-> FALSE]
    /\ loop_count = 0
    /\ host_is_up = InitialVerdict(exclusive)
    /\ should_break = FALSE
    /\ pc = "checking"
    /\ ret = NotReturned
    /\ check_pc = "none"
    /\ seq = 0
    /\ stdout = <<>>
    /\ warnings = 0
    /\ result = NoResult
    /\ folded = <<>>
    /\ nsignals = 0
    /\ nchecking = 1
    /\ nstarted = 0
    /\ nfailed = 0
    /\ ndelays = 0
    /\ npolicy = 0
    /\ sig_in = NoSignal
    /\ iter_start = [host_is_up |-> InitialVerdict(exclusive), lines |-> 0,
                     folded |-> 0]
    /\ lock_holder = 0
    /\ cpc = [c \in Callers |-> "idle"]
    /\ cseq = [c \in Callers |-> 0]

\* ping.rs:16-20: PingUup::new() starts the counter at 0.
Init ==
    /\ InitRun
    /\ seq_cnt = 0

\* The environment delivers SIGTERM or SIGINT to the process; the stream
\* registered at main.rs:176-177 keeps it until the next recv().
SignalDelivered(k) ==
    /\ pc # "done"
    /\ nsignals < MaxSignals
    /\ pending' = [pending EXCEPT ![k] = TRUE]
    /\ nsignals' = nsignals + 1
    /\ UNCHANGED <<args, conc, loop_count, host_is_up, should_break, pc, ret,
                   check_pc, seq, seq_cnt, stdout, warnings, result, folded,
                   nchecking, nstarted, nfailed, ndelays, npolicy, sig_in,
                   iter_start>>

\* check that warns about a port and then refuses it with Err.
PingCheckPollRejectsPort ==
    /\ pc = "checking"
    /\ checker = "ping"
    /\ check_pc = "none"
    /\ warnings' = IF port = "Some" THEN warnings + 1 ELSE warnings
    /\ nstarted' = nstarted + 1
    /\ IF port = "Some"
       THEN /\ pc' = "done"
            /\ ret' = Err
            /\ nfailed' = nfailed + 1
            /\ UNCHANGED <<check_pc, seq, seq_cnt>>
       ELSE /\ seq' = seq_cnt
            /\ seq_cnt' = (seq_cnt + 1) % SeqMod
            /\ check_pc' = "pinger"
            /\ UNCHANGED <<pc, ret, nfailed>>
    /\ UNCHANGED <<args, conc, pending, loop_count, host_is_up, should_break,
                   stdout, result, folded, nsignals, nchecking, ndelays,
                   npolicy, sig_in, iter_start>>

\* ping.rs:25-37: the first poll of PingUup::check: the port warning, then
\* the lock block (uncontended here: the loop is the backend's only caller),
\* up to the await of Pinger::new().
PingCheckPoll ==
    /\ pc = "checking"
    /\ checker = "ping"
    /\ check_pc = "none"
    /\ warnings' = IF port = "Some" THEN warnings + 1 ELSE warnings
    /\ nstarted' = nstarted + 1
    /\ seq' = seq_cnt
    /\ \E o \in SeqIncrement(seq_cnt) :
         /\ seq_cnt' = o.value
         /\ IF o.panic
            THEN pc' = "done" /\ ret' = Panicked /\ check_pc' = "none"
            ELSE check_pc' = "pinger" /\ UNCHANGED <<pc, ret>>
    /\ UNCHANGED <<args, conc, pending, loop_count, host_is_up, should_break,
                   stdout, result, folded, nsignals, nchecking, nfailed,
                   ndelays, npolicy, sig_in, iter_start>>

\* ping.rs:37: Pinger::new().await succeeded.
PingerNewOk ==
    /\ pc = "checking"
    /\ check_pc = "pinger"
    /\ check_pc' = "pinging"
    /\ UNCHANGED <<args, conc, counters, nfailed, pending, loop_count,
                   host_is_up, should_break, pc, ret, seq, seq_cnt, stdout,
                   warnings, result, folded, sig_in, iter_start>>

\* ping.rs:37: Pinger::new().await failed and .unwrap() panics: the panic
\* unwinds through check and run_uup_checker.
PingerNewFailed ==
    /\ pc = "checking"
    /\ check_pc = "pinger"
    /\ check_pc' = "none"
    /\ pc' = "done"
    /\ ret' = Panicked
    /\ UNCHANGED <<args, conc, counters, nfailed, pending, loop_count,
                   host_is_up, should_break, seq, seq_cnt, stdout, warnings,
                   result, folded, sig_in, iter_start>>

\* The check arm with the println! left out.
CheckCompletedSilent(res, line) ==
    /\ result' = res
    /\ host_is_up' = Fold(host_is_up, res.up, exclusive)
    /\ folded' = Append(folded, res.up)
    /\ check_pc' = "none"
    /\ pc' = "delaying"
    /\ ndelays' = ndelays + 1
    /\ UNCHANGED <<args, conc, pending, loop_count, should_break, ret, seq,
                   seq_cnt, stdout, warnings, nsignals, nchecking, nstarted,
                   nfailed, npolicy, sig_in, iter_start>>

\* main.rs:184-192, then 206-207: the check arm of the first select! wins
\* with Ok(res): fold res.up, print the line, and create the delay.
CheckCompleted(res, line) ==
    /\ result' = res
    /\ host_is_up' = Fold(host_is_up, res.up, exclusive)
    /\ folded' = Append(folded, res.up)
    /\ stdout' = Append(stdout, line)
    /\ check_pc' = "none"
    /\ pc' = "delaying"
    /\ ndelays' = ndelays + 1
    /\ UNCHANGED <<args, conc, pending, loop_count, should_break, ret, seq,
                   seq_cnt, warnings, nsignals, nchecking, nstarted, nfailed,
                   npolicy, sig_in, iter_start>>

\* The check arm with Err(e) taken as a host that is down: folded, and the
\* loop goes on to the delay.
CheckFailedAsDown ==
    /\ nfailed' = nfailed + 1
    /\ host_is_up' = Fold(host_is_up, FALSE, exclusive)
    /\ folded' = Append(folded, FALSE)
    /\ check_pc' = "none"
    /\ pc' = "delaying"
    /\ ndelays' = ndelays + 1
    /\ UNCHANGED <<args, conc, pending, loop_count, should_break, ret, seq,
                   seq_cnt, stdout, warnings, result, nsignals, nchecking,
                   nstarted, npolicy, sig_in, iter_start>>

\* main.rs:185: the check arm wins with Err(e): `result?` returns it.
CheckFailed ==
    /\ check_pc' = "none"
    /\ pc' = "done"
    /\ ret' = Err
    /\ nfailed' = nfailed + 1
    /\ UNCHANGED <<args, conc, counters, pending, loop_count, host_is_up,
                   should_break, seq, seq_cnt, stdout, warnings, result,
                   folded, sig_in, iter_start>>

\* ping.rs:38-55: pinger.ping(..) resolved with Ok(ping_duration).
PingResolved(ping_duration) ==
    /\ pc = "checking"
    /\ check_pc = "pinging"
    /\ LET res == PingCheckResult(ping_duration, seq, ipaddr)
       IN CheckCompleted(res, get_context_str(res.context, output_json))

\* ping.rs:38: pinger.ping(..) resolved with Err(e), returned by `?`.
PingFailed ==
    /\ pc = "checking"
    /\ check_pc = "pinging"
    /\ CheckFailed

\* lib.rs:36-39: the first poll of another implementation's check.
DynCheckPoll ==
    /\ pc = "checking"
    /\ checker = "dyn"
    /\ check_pc = "none"
    /\ check_pc' = "running"
    /\ nstarted' = nstarted + 1
    /\ UNCHANGED <<args, conc, pending, loop_count, host_is_up, should_break,
                   pc, ret, seq, seq_cnt, stdout, warnings, result, folded,
                   nsignals, nchecking, nfailed, ndelays, npolicy, sig_in,
                   iter_start>>

\* lib.rs:36-39: that check resolved with Ok(UupCheckResult{up, ..}).
DynResolved(up) ==
    /\ pc = "checking"
    /\ check_pc = "running"
    /\ LET res == DynCheckResult(up, ipaddr)
       IN CheckCompleted(res, DynLine(res.context, output_json))

\* lib.rs:36-39: that check resolved with Err(e).
DynFailed ==
    /\ pc = "checking"
    /\ check_pc = "running"
    /\ CheckFailed

\* The signal arm with the interrupted check folded as a host that is down.
SignalCheckingFoldsDown(k) ==
    /\ pc = "checking"
    /\ pending[k]
    /\ pending' = [pending EXCEPT ![k] = FALSE]
    /\ should_break' = TRUE
    /\ host_is_up' = Fold(host_is_up, FALSE, exclusive)
    /\ folded' = Append(folded, FALSE)
    /\ check_pc' = "none"
    /\ pc' = "delaying"
    /\ ndelays' = ndelays + 1
    /\ sig_in' = [sig_in EXCEPT !.checking = TRUE]
    /\ UNCHANGED <<args, conc, loop_count, ret, seq, seq_cnt, stdout, warnings,
                   result, nsignals, nchecking, nstarted, nfailed, npolicy,
                   iter_start>>

\* The signal arm with the check future kept alive instead of dropped.
SignalCheckingKeepsProbe(k) ==
    /\ pc = "checking"
    /\ pending[k]
    /\ pending' = [pending EXCEPT ![k] = FALSE]
    /\ should_break' = TRUE
    /\ pc' = "delaying"
    /\ ndelays' = ndelays + 1
    /\ sig_in' = [sig_in EXCEPT !.checking = TRUE]
    /\ UNCHANGED <<args, conc, loop_count, host_is_up, ret, check_pc, seq,
                   seq_cnt, stdout, warnings, result, folded, nsignals,
                   nchecking, nstarted, nfailed, npolicy, iter_start>>

\* main.rs:195-203, then 206-207: a signal arm of the first select! wins.
\* The check future is dropped wherever it stands; should_break is set, and
\* control falls through to the delay, which is created and raced as usual.
SignalChecking(k) ==
    /\ pc = "checking"
    /\ pending[k]
    /\ pending' = [pending EXCEPT ![k] = FALSE]
    /\ should_break' = TRUE
    /\ check_pc' = "none"
    /\ pc' = "delaying"
    /\ ndelays' = ndelays + 1
    /\ sig_in' = [sig_in EXCEPT !.checking = TRUE]
    /\ UNCHANGED <<args, conc, loop_count, host_is_up, ret, seq, seq_cnt, stdout,
                   warnings, result, folded, nsignals, nchecking, nstarted,
                   nfailed, npolicy, iter_start>>

\* main.rs:222-237: after the second select!, with should_break as sb:
\* consult the policy unless sb, then break and return Ok(host_is_up), or
\* count the iteration and start the next one (main.rs:182-183).
Decide(sb) ==
    /\ npolicy' = IF ~sb THEN npolicy + 1 ELSE npolicy
    /\ IF BreakAfterDelay(sb, run_mode, loop_count)
       THEN /\ should_break' = TRUE
            /\ pc' = "done"
            /\ ret' = Ok(host_is_up)
            /\ UNCHANGED <<loop_count, nchecking, iter_start>>
       ELSE /\ loop_count < MaxLoop
            /\ loop_count' = loop_count + 1
            /\ should_break' = FALSE
            /\ pc' = "checking"
            /\ nchecking' = nchecking + 1
            /\ iter_start' = [host_is_up |-> host_is_up, lines |-> Len(stdout),
                              folded |-> Len(folded)]
            /\ UNCHANGED ret
    /\ UNCHANGED <<args, conc, host_is_up, check_pc, seq, seq_cnt, stdout,
                   warnings, result, folded, nsignals, nstarted, nfailed,
                   ndelays>>

\* main.rs:209, then 222-235: the delay elapsed before any signal.
DelayElapsed ==
    /\ pc = "delaying"
    /\ Decide(should_break)
    /\ sig_in' = IF pc' = "checking" THEN NoSignal ELSE sig_in
    /\ UNCHANGED pending

\* main.rs:211-219, then 222-235: a signal arm of the second select! wins.
SignalDelaying(k) ==
    /\ pc = "delaying"
    /\ pending[k]
    /\ pending' = [pending EXCEPT ![k] = FALSE]
    /\ Decide(TRUE)
    /\ sig_in' = IF pc' = "checking" THEN NoSignal
                 ELSE [sig_in EXCEPT !.delaying = TRUE]

Next ==
    \/ \E k \in Signals : SignalDelivered(k)
    \/ PingCheckPoll
    \/ PingerNewOk
    \/ PingerNewFailed
    \/ \E d \in PingDurations : PingResolved(d)
    \/ PingFailed
    \/ DynCheckPoll
    \/ \E up \in BOOLEAN : DynResolved(up)
    \/ DynFailed
    \/ \E k \in Signals : SignalChecking(k)
    \/ DelayElapsed
    \/ \E k \in Signals : SignalDelaying(k)

Spec == Init /\ [][Next]_vars

\* The loop under the scheduling the runtime gives it: a check that is
\* raced is polled, and Pinger::new, the ping (bounded by its timeout) and
\* the other implementation's check each resolve one way or the other
\* (ping.rs:37-38); sleep(delay) elapses (main.rs:206-209); and select!
\* polls its arms in random order, so a signal arm that is ready again and
\* again is eventually the one taken (main.rs:195-203, 211-219).
Fairness ==
    /\ WF_vars(PingCheckPoll \/ DynCheckPoll)
    /\ WF_vars(PingerNewOk \/ PingerNewFailed)
    /\ WF_vars((\E d \in PingDurations : PingResolved(d)) \/ PingFailed)
    /\ WF_vars((\E up \in BOOLEAN : DynResolved(up)) \/ DynFailed)
    /\ WF_vars(DelayElapsed)
    /\ SF_vars(\E k \in Signals : SignalChecking(k))
    /\ SF_vars(\E k \in Signals : SignalDelaying(k))

\* The runs FairSpec follows: those of Init with no port and human output
\* (neither argument enters a guard of the loop, main.rs:181-235).
InitFair ==
    /\ Init
    /\ port = "None"
    /\ output_json = FALSE

FairSpec == InitFair /\ [][Next]_vars /\ Fairness

-----------------------------------------------------------------------------
\* NumCallers invocations of PingUup::check in flight on one backend
\* instance (the Arc<Mutex<..>> of ping.rs:12 is what they share).

loop == <<args, counters, nfailed, pending, loop_count, host_is_up, should_break, pc,
          ret, check_pc, seq, stdout, warnings, result, folded, sig_in,
          iter_start>>

\* ping.rs:16-20: callers yet to call, on a backend fresh from new() or on
\* one that has already issued all but the last two values of its u16.
InitConc ==
    /\ InitRun
    /\ seq_cnt \in {0, SeqMod - 2}
    /\ checker = "ping"
    /\ run_mode = OneShot
    /\ port = "None"
    /\ exclusive = FALSE
    /\ output_json = FALSE

\* ping.rs:25-32: caller c enters check and reaches self.seq_cnt.lock().
CallerStart(c) ==
    /\ cpc[c] = "idle"
    /\ cpc' = [cpc EXCEPT ![c] = "lock"]
    /\ UNCHANGED <<loop, seq_cnt, lock_holder, cseq>>

\* lock() that lets c in while another caller holds the mutex.
LockAcquireNoExclusion(c) ==
    /\ cpc[c] = "lock"
    /\ lock_holder' = c
    /\ cpc' = [cpc EXCEPT ![c] = "get"]
    /\ UNCHANGED <<loop, seq_cnt, cseq>>

\* ping.rs:32: lock().await resolves for c: the mutex was free.
LockAcquire(c) ==
    /\ cpc[c] = "lock"
    /\ lock_holder = 0
    /\ lock_holder' = c
    /\ cpc' = [cpc EXCEPT ![c] = "get"]
    /\ UNCHANGED <<loop, seq_cnt, cseq>>

\* ping.rs:33: seq_cnt = seq_cnt_lock.get().
CounterGet(c) ==
    /\ cpc[c] = "get"
    /\ cseq' = [cseq EXCEPT ![c] = seq_cnt]
    /\ cpc' = [cpc EXCEPT ![c] = "set"]
    /\ UNCHANGED <<loop, seq_cnt, lock_holder>>

\* ping.rs:34: seq_cnt_lock.set(seq_cnt_lock.get() + 1). A panic of the
\* addition unwinds out of check and drops the guard.
CounterSet(c) ==
    /\ cpc[c] = "set"
    /\ \E o \in SeqIncrement(seq_cnt) :
         /\ seq_cnt' = o.value
         /\ IF o.panic
            THEN cpc' = [cpc EXCEPT ![c] = "panicked"] /\ lock_holder' = 0
            ELSE cpc' = [cpc EXCEPT ![c] = "unlock"] /\ UNCHANGED lock_holder
    /\ UNCHANGED <<loop, cseq>>

\* ping.rs:35: the guard goes out of scope; c goes on with cseq[c].
LockRelease(c) ==
    /\ cpc[c] = "unlock"
    /\ lock_holder' = 0
    /\ cpc' = [cpc EXCEPT ![c] = "pinging"]
    /\ UNCHANGED <<loop, seq_cnt, cseq>>

NextConc ==
    \E c \in Callers :
        \/ CallerStart(c)
        \/ LockAcquire(c)
        \/ CounterGet(c)
        \/ CounterSet(c)
        \/ LockRelease(c)

SpecConc == InitConc /\ [][NextConc]_vars

-----------------------------------------------------------------------------
\* Properties.

AllUp(s) == \A i \in 1..Len(s) : s[i]
AnyUp(s) == \E i \in 1..Len(s) : s[i]
Aggregate(s, excl) == IF excl THEN AllUp(s) ELSE AnyUp(s)

\* A step in which the loop receives a signal while in the given phase.
SignalReceivedIn(phase) ==
    /\ pc = phase
    /\ \E k \in Signals : pending[k] /\ ~pending'[k]

\* C1: whenever run_uup_checker returns a verdict, the verdict is the AND of
\* the result.up values folded during the run when exclusive, and their OR
\* when not; for no folded value that is `exclusive` itself.
C1_VerdictIsAggregate ==
    ret.kind = "Ok" => ret.value = Aggregate(folded, exclusive)

C1_Witness ==
    /\ ret.kind = "Ok"
    /\ Len(folded) >= 2
    /\ AnyUp(folded)
    /\ ~AllUp(folded)

\* C2: the up flag of every result PingUup::check returns equals the up
\* field of that result's detail payload (true on a reply, false on a
\* timeout).
C2_TopLevelUpIsDetailUp ==
    (checker = "ping" /\ result.kind = "Result")
        => result.up = result.context.json.up

\* C3: in Count(n) mode with no signal delivered, at most n + 1 Checking
\* phases are entered and results folded, and a run that returns a verdict has
\* entered exactly n + 1 Checking phases, folded n + 1 results and printed
\* n + 1 lines.
C3_CountRunsNPlusOne ==
    (run_mode.kind = "Count" /\ nsignals = 0)
        => /\ nchecking <= run_mode.max_count + 1
           /\ Len(folded) <= run_mode.max_count + 1
           /\ (ret.kind = "Ok"
                 => /\ nchecking = run_mode.max_count + 1
                    /\ Len(folded) = run_mode.max_count + 1
                    /\ Len(stdout) = run_mode.max_count + 1)

C3_Witness ==
    /\ run_mode.kind = "Count"
    /\ run_mode.max_count >= 2
    /\ nsignals = 0
    /\ ret.kind = "Ok"
    /\ Len(folded) = run_mode.max_count + 1

\* C4: in OneShot mode only one Checking phase is ever entered, and a run
\* that returns a verdict without a signal having won that Checking phase has
\* folded exactly one result and printed one line, with or without a signal
\* in the Delaying phase.
C4_OneShotChecksOnce ==
    run_mode.kind = "OneShot"
        => /\ nchecking = 1
           /\ Len(folded) <= 1
           /\ (ret.kind = "Ok" /\ ~sig_in.checking
                 => Len(folded) = 1 /\ Len(stdout) = 1)

C4_Witness ==
    /\ run_mode.kind = "OneShot"
    /\ ret.kind = "Ok"
    /\ sig_in.delaying
    /\ ~sig_in.checking
    /\ Len(folded) = 1

\* C5: once a signal has won the Checking phase of an iteration, the loop
\* is not in the Delaying phase of that iteration: no delay is created or
\* waited on.
C5_SignalInCheckingSkipsDelay ==
    ~(sig_in.checking /\ pc = "delaying")

\* C6: from the moment a signal wins the Checking phase of an iteration,
\* host_is_up, the lines printed and the results folded are what they were
\* when the iteration began, and the verdict returned is that host_is_up.
C6_SignalInCheckingFoldsNothing ==
    sig_in.checking
        => /\ host_is_up = iter_start.host_is_up
           /\ Len(stdout) = iter_start.lines
           /\ Len(folded) = iter_start.folded
           /\ (ret.kind = "Ok" => ret.value = iter_start.host_is_up)

C6_Witness ==
    /\ sig_in.checking
    /\ ret.kind = "Ok"
    /\ Len(folded) >= 1
    /\ nstarted > Len(folded)

\* C7: a step that receives a signal in the Delaying phase ends the loop, in
\* every run mode: it returns as verdict the aggregate of the results folded
\* before it, folds and prints nothing, does not evaluate the run-mode policy
\* and enters no further Checking phase.
C7_SignalInDelayingTerminates ==
    [][SignalReceivedIn("delaying")
         => /\ pc' = "done"
            /\ ret' = Ok(Aggregate(folded, exclusive))
            /\ folded' = folded
            /\ stdout' = stdout
            /\ npolicy' = npolicy
            /\ nchecking' = nchecking
            /\ nstarted' = nstarted]_vars

C7_Witness ==
    /\ pc = "done"
    /\ sig_in.delaying
    /\ ~sig_in.checking
    /\ run_mode.kind = "Forever"
    /\ Len(folded) >= 2

\* C8: once a check has resolved with an error the loop has ended with that
\* error as its outcome, and the step in which it resolved folded nothing,
\* printed nothing and started no delay, Checking phase or check; a run
\* whose last iteration received a signal ends with a boolean verdict.
C8_ProbeErrorIsFatal ==
    /\ [](nfailed > 0 => pc = "done" /\ ret = Err /\ nfailed = 1)
    /\ [](ret.kind = "Err" => nfailed = 1)
    /\ []((pc = "done" /\ (sig_in.checking \/ sig_in.delaying)) => ret.kind = "Ok")
    /\ [][nfailed' # nfailed
            => /\ folded' = folded
               /\ stdout' = stdout
               /\ host_is_up' = host_is_up
               /\ ndelays' = ndelays
               /\ nchecking' = nchecking
               /\ nstarted' = nstarted]_vars

C8_Witness ==
    /\ nfailed = 1
    /\ ret = Err
    /\ Len(folded) >= 1

\* C9: no failure inside PingUup::check aborts by panic: every failure
\* reaches the caller as a returned value.
C9_PingFailuresAreReturned ==
    checker = "ping" => ret.kind # "Panic"

\* C10: any two callers that have each obtained a sequence number from the
\* lock block of one backend hold different numbers.
HasSeq(c) == cpc[c] \in {"set", "unlock", "pinging"}

C10_SequenceNumbersDistinct ==
    \A c1, c2 \in Callers :
        (c1 # c2 /\ HasSeq(c1) /\ HasSeq(c2)) => cseq[c1] # cseq[c2]

C10_Witness ==
    /\ \A c \in Callers : cpc[c] = "pinging"
    /\ Cardinality({cseq[c] : c \in Callers}) = NumCallers


\* C11: a Forever run that has ended was ended by a signal received in its
\* last iteration or by a failed check (an error returned, or a panic inside
\* check); and in Forever mode a delay that elapses with should_break unset
\* is followed by another Checking phase.
C11_ForeverEndsOnlyBySignalOrFailure ==
    /\ []((run_mode.kind = "Forever" /\ pc = "done")
            => (sig_in.checking \/ sig_in.delaying \/ ret.kind \in {"Err", "Panic"}))
    /\ [][(/\ run_mode.kind = "Forever"
           /\ pc = "delaying"
           /\ ~should_break
           /\ pending' = pending
           /\ pc' # pc)
            => (pc' = "checking" /\ nchecking' = nchecking + 1)]_vars

C11_Witness ==
    /\ run_mode.kind = "Forever"
    /\ nsignals = 0
    /\ pc = "checking"
    /\ nchecking >= 3
    /\ Len(folded) >= 2


\* C12 as claimed: a run of PingUup checks called with a port never ends
\* with an error, and has printed one warning per check started.
C12_PortCheckNeverErrs ==
    (checker = "ping" /\ port = "Some")
        => (ret.kind # "Err" /\ warnings = nstarted)

\* C12 as amended: PingUup prints exactly one warning per check called with
\* a port and none without, and the port causes no error: an error is
\* returned only by a check that was awaiting pinger.ping (ping.rs:38), and
\* a check that leaves that await without an error or a signal has returned
\* a result, which is folded.
C12_PortWarnsOnceAndIsIgnored ==
    /\ [](checker = "ping"
            => warnings = IF port = "Some" THEN nstarted ELSE 0)
    /\ [][(checker = "ping" /\ ret.kind # "Err" /\ ret'.kind = "Err")
            => check_pc = "pinging"]_vars
    /\ [][(/\ checker = "ping"
           /\ check_pc = "pinging"
           /\ check_pc' = "none"
           /\ ret' = ret
           /\ ~SignalReceivedIn("checking"))
            => (result'.kind = "Result" /\ Len(folded') = Len(folded) + 1)]_vars

C12_Witness ==
    /\ checker = "ping"
    /\ port = "Some"
    /\ warnings >= 2
    /\ Len(folded) >= 2
    /\ result.kind = "Result"


\* C13: when run_uup_checker has returned, the process exits with 0 for a
\* verdict of up, 1 for a verdict of down and 2 for an error.
C13_ExitStatusConvention ==
    (pc = "done" /\ ret.kind \in {"Ok", "Err"})
        => MainExit(ret) =
             Exit(CASE ret.kind = "Ok" /\ ret.value -> 0
                    [] ret.kind = "Ok" /\ ~ret.value -> 1
                    [] ret.kind = "Err" -> 2)


\* C14: every delivered signal is received by the loop unless the loop ends
\* first; a signal received in the Checking phase sets should_break and
\* leads to the delay, one received in the Delaying phase ends the loop, and
\* once should_break is set the delay is followed by the end of the loop,
\* never by another Checking phase.
C14_SignalsObservedAndFinal ==
    /\ \A k \in Signals : pending[k] ~> (~pending[k] \/ pc = "done")
    /\ [][/\ SignalReceivedIn("checking") => (should_break' /\ pc' = "delaying")
          /\ SignalReceivedIn("delaying") => pc' = "done"
          /\ (pc = "delaying" /\ should_break /\ pc' # pc) => pc' = "done"
          /\ (pc' = "checking" /\ pc # "checking") => ~should_break]_vars

C14_Witness ==
    /\ pc = "done"
    /\ nsignals = 2
    /\ sig_in.checking
    /\ sig_in.delaying
    /\ \A k \in Signals : ~pending[k]


\* C15: the lines printed are as many as the results folded at every point
\* of a run; a result is folded only by a step that leaves the Checking
\* phase for the Delaying phase and prints exactly one line, the rendering of
\* that result, after the lines already printed; nothing else prints, and
\* printed lines are never changed or reordered.
C15_OneLinePerResultInOrder ==
    /\ [](Len(stdout) = Len(folded))
    /\ [][/\ Len(stdout') >= Len(stdout)
          /\ SubSeq(stdout', 1, Len(stdout)) = stdout
          /\ (stdout' # stdout) = (folded' # folded)
          /\ (folded' # folded)
                => /\ pc = "checking"
                   /\ pc' = "delaying"
                   /\ ndelays' = ndelays + 1
                   /\ Len(folded') = Len(folded) + 1
                   /\ Len(stdout') = Len(stdout) + 1
                   /\ folded'[Len(folded')] = result'.up
                   /\ (checker = "ping"
                         => stdout'[Len(stdout')]
                              = get_context_str(result'.context, output_json))]_vars

C15_Witness ==
    /\ checker = "ping"
    /\ pc = "delaying"
    /\ Len(stdout) >= 3
    /\ stdout[1] # stdout[2]
    /\ stdout[3].sequence_number = 2


\* The number (as the f32 nearest to it) that a printed duration denotes.
ReadF32(text) ==
    CASE text \in {"0.0123", "0.012299999594688416"} -> "0.0123"
      [] text = "0.5" -> "0.5"
      [] text \in {"-1", "-1.0"} -> "-1"

\* Whether a human rendering says the host answered.
HumanSaysUp(h) == h.text = "responded in"

\* The two renderings of the payload of the last result.
AsJson == get_context_str(result.context, TRUE)
AsHuman == get_context_str(result.context, FALSE)

\* C16 as claimed: for every payload PingUup builds, each of up, duration,
\* unit, sequence_number and address of the structured rendering is shown
\* in the human rendering with the same value.
C16_RenderingsAgreeOnEveryField ==
    (checker = "ping" /\ result.kind = "Result")
        => /\ {"address", "sequence_number", "unit", "duration"} \subseteq DOMAIN AsHuman
           /\ AsHuman.address = AsJson.address
           /\ AsHuman.sequence_number = AsJson.sequence_number
           /\ AsHuman.unit = AsJson.unit
           /\ ReadF32(AsHuman.duration) = ReadF32(AsJson.duration)
           /\ HumanSaysUp(AsHuman) = AsJson.up

\* C16 as amended: both renderings show the same address and sequence
\* number and agree on up; when up is true the human rendering also shows the
\* same unit and the same duration; when up is false it shows neither, while
\* the structured rendering carries the sentinel -1.0 and the unit.
C16_RenderingsAgreeOnShownFields ==
    (checker = "ping" /\ result.kind = "Result")
        => /\ AsHuman.address = AsJson.address
           /\ AsHuman.sequence_number = AsJson.sequence_number
           /\ HumanSaysUp(AsHuman) = AsJson.up
           /\ AsJson.unit = "s"
           /\ AsJson.up
                => /\ AsHuman.unit = AsJson.unit
                   /\ ReadF32(AsHuman.duration) = ReadF32(AsJson.duration)
           /\ ~AsJson.up
                => /\ DOMAIN AsHuman \cap {"unit", "duration"} = {}
                   /\ AsJson.duration = "-1.0"

C16_Witness ==
    /\ checker = "ping"
    /\ result.kind = "Result"
    /\ AsJson.up
    /\ AsJson.duration # AsHuman.duration
    /\ Len(stdout) >= 1
    /\ stdout[Len(stdout)] \in {AsJson, AsHuman}


\* C17: the increment of a counter that stands at 65535 never aborts the
\* check: the caller goes on with sequence number 65535 and the stored value
\* is 0 when it releases the lock.
C17_CounterWrapsAt65535 ==
    \A c \in Callers :
        /\ cpc[c] # "panicked"
        /\ (cpc[c] = "unlock" /\ cseq[c] = SeqMod - 1) => seq_cnt = 0


\* C18: when checks resolve and delays elapse, a OneShot or Count(n) run
\* ends, signal or no signal; and in every mode, once a signal has been
\* delivered the run ends.
C18_LoopTerminates ==
    /\ (run_mode.kind # "Forever") ~> (pc = "done")
    /\ (\E k \in Signals : pending[k]) ~> (pc = "done")

C18_Witness ==
    /\ pc = "done"
    /\ run_mode.kind = "Forever"
    /\ ret.kind = "Ok"
    /\ nsignals >= 1
    /\ loop_count >= 1
    /\ Len(folded) >= 1


\* C19: a check is in flight only during a Checking phase, so none runs
\* alongside a delay or after the loop has ended (a check that lost to a
\* signal is gone); each Checking phase starts at most one check, and a
\* Checking phase is entered only after the delay of every earlier iteration.
C19_OneProbeAtATime ==
    /\ check_pc # "none" => pc = "checking"
    /\ nstarted <= nchecking
    /\ check_pc # "none" => nstarted = nchecking
    /\ pc = "checking" => ndelays = nchecking - 1

C19_Witness ==
    /\ pc = "delaying"
    /\ sig_in.checking
    /\ check_pc = "none"
    /\ nchecking >= 2
    /\ nstarted = nchecking
    /\ Len(folded) = nchecking - 1


\* C20: in a run against a fresh PingUup every check that was started took
\* one sequence number, whether it completed, failed or lost to a signal: the
\* counter stands at the number of started checks, the check in flight holds
\* the latest number, only the last started check can lack a line, and line
\* i of the output (counted from 0) carries sequence_number i mod 65536. An
\* increment that does not abort stores the successor mod 65536.
C20_LinesCarryConsecutiveNumbers ==
    checker = "ping" =>
        /\ seq_cnt = nstarted % SeqMod
        /\ check_pc # "none" => seq = (nstarted - 1) % SeqMod
        /\ Len(stdout) <= nstarted
        /\ nstarted <= Len(stdout) + 1
        /\ \A i \in 1..Len(stdout) :
               stdout[i].sequence_number = (i - 1) % SeqMod
        /\ \A s \in {seq_cnt, SeqMod - 2, SeqMod - 1} :
               \A o \in SeqIncrement(s) :
                   ~o.panic => o.value = (s + 1) % SeqMod

C20_Witness ==
    /\ checker = "ping"
    /\ pc = "done"
    /\ Len(stdout) >= 2
    /\ stdout[Len(stdout)].sequence_number = Len(stdout) - 1
    /\ nstarted = Len(stdout) + 1
    /\ seq_cnt = nstarted
    /\ sig_in.checking \/ ret.kind = "Err"

====
